---- MODULE Spec2Model ----
(***************************************************************************)
(* Model of the SEO keyword research agent: SEOKeywordAgent                *)
(* (src/keyword_research.py) and the Flask routes that share one agent     *)
(* (src/app.py).                                                           *)
(*                                                                         *)
(* A Python str is modelled as a sequence of one-character strings, so     *)
(* that lower(), the four re.sub calls, split(), join(), len() and         *)
(* isdigit() are computed character by character as the code computes      *)
(* them.  The Counter self.keywords is a sequence of [k, v] records in     *)
(* insertion order (a Counter is a dict and keeps insertion order).        *)
(***************************************************************************)
EXTENDS Integers, Sequences, FiniteSets, TLC

(***************************************************************************)
(* Characters                                                              *)
(***************************************************************************)
Lowercase ==
  {"a","b","c","d","e","f","g","h","i","j","k","l","m",
   "n","o","p","q","r","s","t","u","v","w","x","y","z"}

Uppercase == {"R","T"}

Digits == {"0","1","2","3","4","5","6","7","8","9"}

\* The characters of the model in code point order (str comparison in
\* Python compares code points).
CodeOrder ==
  <<"\n"," ",".","/","0","1","2","3","4","5","6","7","8","9",":","<",">","?",
    "R","T","_",
    "a","b","c","d","e","f","g","h","i","j","k","l","m",
    "n","o","p","q","r","s","t","u","v","w","x","y","z">>

Code(c) == CHOOSE i \in 1..Len(CodeOrder) : CodeOrder[i] = c

\* s1 < s2 for two Python strings
RECURSIVE StrLess(_, _)
StrLess(s1, s2) ==
  IF s2 = <<>> THEN FALSE
  ELSE IF s1 = <<>> THEN TRUE
  ELSE IF s1[1] = s2[1] THEN StrLess(Tail(s1), Tail(s2))
  ELSE Code(s1[1]) < Code(s2[1])

\* regular expression class \s
IsSpace(c) == c \in {" ", "\n"}

\* regular expression class \w: letters, digits and the underscore
IsWord(c) == c \in Lowercase \cup Uppercase \cup Digits \cup {"_"}

\* str.lower() on one character
LowerChar(c) == IF c = "R" THEN "r" ELSE IF c = "T" THEN "t" ELSE c

lower(s) == [i \in 1..Len(s) |-> LowerChar(s[i])]

\* str.isdigit()
isdigit(s) == Len(s) > 0 /\ \A i \in 1..Len(s) : s[i] \in Digits

\* str.startswith(p)
startswith(s, p) == Len(s) >= Len(p) /\ SubSeq(s, 1, Len(p)) = p

\* p occurs in s at index i
MatchAt(s, i, p) == i + Len(p) - 1 <= Len(s) /\ SubSeq(s, i, i + Len(p) - 1) = p

(***************************************************************************)
(* Stop words                                                              *)
(***************************************************************************)
stop_words ==
  {
    <<"a">>, <<"a","n">>, <<"t","h","e">>, <<"a","n","d">>, <<"o","r">>, <<"b","u","t">>,
    <<"i","f">>, <<"b","e","c","a","u","s","e">>, <<"a","s">>, <<"w","h","a","t">>,
    <<"w","h","e","n">>, <<"w","h","e","r","e">>, <<"h","o","w">>, <<"w","h","y">>,
    <<"w","h","i","c","h">>, <<"w","h","o">>, <<"w","h","o","m">>, <<"t","h","i","s">>,
    <<"t","h","a","t">>, <<"t","h","e","s","e">>, <<"t","h","o","s","e">>, <<"i","s">>,
    <<"a","r","e">>, <<"w","a","s">>, <<"w","e","r","e">>, <<"b","e">>, <<"b","e","e","n">>,
    <<"b","e","i","n","g">>, <<"h","a","v","e">>, <<"h","a","s">>, <<"h","a","d">>,
    <<"h","a","v","i","n","g">>, <<"d","o">>, <<"d","o","e","s">>, <<"d","i","d">>,
    <<"d","o","i","n","g">>, <<"c","a","n">>, <<"c","o","u","l","d">>, <<"s","h","o","u","l","d">>,
    <<"w","o","u","l","d">>, <<"m","a","y">>, <<"m","i","g","h","t">>, <<"m","u","s","t">>,
    <<"s","h","a","l","l">>, <<"w","i","l","l">>, <<"o","f">>, <<"a","t">>, <<"b","y">>,
    <<"f","o","r">>, <<"w","i","t","h">>, <<"a","b","o","u","t">>, <<"a","g","a","i","n","s","t">>,
    <<"b","e","t","w","e","e","n">>, <<"i","n","t","o">>, <<"t","h","r","o","u","g","h">>,
    <<"d","u","r","i","n","g">>, <<"b","e","f","o","r","e">>, <<"a","f","t","e","r">>,
    <<"a","b","o","v","e">>, <<"b","e","l","o","w">>, <<"t","o">>, <<"f","r","o","m">>,
    <<"u","p">>, <<"d","o","w","n">>, <<"i","n">>, <<"o","u","t">>, <<"o","n">>, <<"o","f","f">>,
    <<"o","v","e","r">>, <<"u","n","d","e","r">>, <<"a","g","a","i","n">>,
    <<"f","u","r","t","h","e","r">>, <<"t","h","e","n">>, <<"o","n","c","e">>, <<"h","e","r","e">>,
    <<"t","h","e","r","e">>, <<"a","l","l">>, <<"a","n","y">>, <<"b","o","t","h">>,
    <<"e","a","c","h">>, <<"f","e","w">>, <<"m","o","r","e">>, <<"m","o","s","t">>,
    <<"o","t","h","e","r">>, <<"s","o","m","e">>, <<"s","u","c","h">>, <<"n","o">>,
    <<"n","o","r">>, <<"n","o","t">>, <<"o","n","l","y">>, <<"o","w","n">>, <<"s","a","m","e">>,
    <<"s","o">>, <<"t","h","a","n">>, <<"t","o","o">>, <<"v","e","r","y">>, <<"s">>, <<"t">>,
    <<"j","u","s","t">>, <<"n","o","w">>, <<"d">>, <<"l","l">>, <<"m">>, <<"o">>, <<"r","e">>,
    <<"v","e">>, <<"y">>, <<"a","i","n">>, <<"a","r","e","n">>, <<"c","o","u","l","d","n">>,
    <<"d","i","d","n">>, <<"d","o","e","s","n">>, <<"h","a","d","n">>, <<"h","a","s","n">>,
    <<"h","a","v","e","n">>, <<"i","s","n">>, <<"m","a">>, <<"m","i","g","h","t","n">>,
    <<"m","u","s","t","n">>, <<"n","e","e","d","n">>, <<"s","h","a","n">>,
    <<"s","h","o","u","l","d","n">>, <<"w","a","s","n">>, <<"w","e","r","e","n">>, <<"w","o","n">>,
    <<"w","o","u","l","d","n">>, <<"i">>, <<"m","e">>, <<"m","y">>, <<"m","y","s","e","l","f">>,
    <<"w","e">>, <<"o","u","r">>, <<"o","u","r","s">>, <<"o","u","r","s","e","l","v","e","s">>,
    <<"y","o","u">>, <<"y","o","u","r">>, <<"y","o","u","r","s">>,
    <<"y","o","u","r","s","e","l","f">>, <<"y","o","u","r","s","e","l","v","e","s">>, <<"h","e">>,
    <<"h","i","m">>, <<"h","i","s">>, <<"h","i","m","s","e","l","f">>, <<"s","h","e">>,
    <<"h","e","r">>, <<"h","e","r","s">>, <<"h","e","r","s","e","l","f">>, <<"i","t">>,
    <<"i","t","s">>, <<"i","t","s","e","l","f">>, <<"t","h","e","y">>, <<"t","h","e","m">>,
    <<"t","h","e","i","r">>, <<"t","h","e","i","r","s">>,
    <<"t","h","e","m","s","e","l","v","e","s">>
  }

(***************************************************************************)
(* Text cleaning of _extract_keywords_from_text                            *)
(***************************************************************************)
\* Greedy \S+ starting at index j (s[j] is not white space): index of the
\* last character of the run.
RunEnd(s, j) ==
  LET stops == {k \in j..Len(s) : IsSpace(s[k])}
  IN  IF stops = {} THEN Len(s)
      ELSE (CHOOSE k \in stops : \A m \in stops : k <= m) - 1

\* https?://\S+|www\.\S+ tried at index i: index of the last matched
\* character, 0 if there is no match at i.
UrlMatchEnd(s, i) ==
  LET k == IF MatchAt(s, i, <<"h","t","t","p","s">>) THEN i + 5 ELSE i + 4
  IN  IF /\ MatchAt(s, i, <<"h","t","t","p">>)
         /\ MatchAt(s, k, <<":","/","/">>)
         /\ k + 3 <= Len(s)
         /\ ~IsSpace(s[k + 3])
      THEN RunEnd(s, k + 3)
      ELSE IF /\ MatchAt(s, i, <<"w","w","w",".">>)
              /\ i + 4 <= Len(s)
              /\ ~IsSpace(s[i + 4])
      THEN RunEnd(s, i + 4)
      ELSE 0

\* The elements of s at the indices lo..hi where keep is TRUE, in order
RECURSIVE Pick(_, _, _, _)
Pick(s, keep, lo, hi) ==
  IF lo > hi THEN <<>>
  ELSE IF lo = hi THEN (IF keep[lo] THEN <<s[lo]>> ELSE <<>>)
  ELSE LET mid == (lo + hi) \div 2
       IN  Pick(s, keep, lo, mid) \o Pick(s, keep, mid + 1, hi)

\* re.sub(r'https?://\S+|www\.\S+', '', text).  The scan tries the pattern
\* at every index outside a previous match and a match runs to the end of
\* its run of non-space characters, so a character is deleted exactly when
\* the pattern matches at some index at or before it and reaches it.
SubUrl(s) ==
  LET ends == [m \in 1..Len(s) |-> UrlMatchEnd(s, m)]
      keep == [i \in 1..Len(s) |-> \A m \in 1..i : ends[m] < i]
  IN  Pick(s, keep, 1, Len(s))

\* <.*?> tried at index i: index of the closing '>', 0 if there is no match
\* at i ('.' does not match a newline, '*?' takes the nearest '>').
TagMatchEnd(s, i) ==
  LET ends == {j \in (i + 1)..Len(s) :
                 /\ s[j] = ">"
                 /\ \A m \in (i + 1)..(j - 1) : s[m] # "\n" /\ s[m] # ">"}
  IN  IF s[i] = "<" /\ ends # {} THEN CHOOSE j \in ends : TRUE ELSE 0

\* re.sub(r'<.*?>', '', text).  A match ends at the nearest '>', so a '<'
\* inside a match would end at the same '>': a character is deleted exactly
\* when the pattern matches at some index at or before it and reaches it.
SubTag(s) ==
  LET ends == [m \in 1..Len(s) |-> TagMatchEnd(s, m)]
      keep == [i \in 1..Len(s) |-> \A m \in 1..i : ends[m] < i]
  IN  Pick(s, keep, 1, Len(s))

\* the substitution of line 177 left out
SubNonWord_skipped(s) == s

\* re.sub(r'[^\w\s]', ' ', text)
SubNonWord(s) ==
  [i \in 1..Len(s) |-> IF IsWord(s[i]) \/ IsSpace(s[i]) THEN s[i] ELSE " "]

\* re.sub(r'\s+', ' ', text): a run of white space becomes one space
SubSpace(s) ==
  LET one == [i \in 1..Len(s) |-> IF IsSpace(s[i]) THEN " " ELSE s[i]]
      keep == [i \in 1..Len(s) |-> ~IsSpace(s[i]) \/ i = 1 \/ ~IsSpace(s[i - 1])]
  IN  Pick(one, keep, 1, Len(s))

\* str.strip()
strip(s) ==
  LET keep == {i \in 1..Len(s) : ~IsSpace(s[i])}
  IN  IF keep = {} THEN <<>>
      ELSE SubSeq(s, CHOOSE i \in keep : \A m \in keep : i <= m,
                     CHOOSE i \in keep : \A m \in keep : i >= m)

\* lines 172-178: the cleaned text
clean(text) == strip(SubSpace(SubNonWord(SubTag(SubUrl(lower(text))))))

\* str.split(): the maximal runs of characters that are not white space
RECURSIVE splitRange(_, _, _)
splitRange(s, lo, hi) ==
  IF lo > hi THEN <<>>
  ELSE IF lo = hi
       THEN IF ~IsSpace(s[lo]) /\ (lo = 1 \/ IsSpace(s[lo - 1]))
            THEN <<SubSeq(s, lo, RunEnd(s, lo))>>
            ELSE <<>>
  ELSE LET mid == (lo + hi) \div 2
       IN  splitRange(s, lo, mid) \o splitRange(s, mid + 1, hi)

split(s) == splitRange(s, 1, Len(s))

\* ' '.join(ws)
RECURSIVE join(_)
join(ws) ==
  IF ws = <<>> THEN <<>>
  ELSE IF Len(ws) = 1 THEN ws[1]
  ELSE LET mid == Len(ws) \div 2
       IN  join(SubSeq(ws, 1, mid)) \o <<" ">> \o join(SubSeq(ws, mid + 1, Len(ws)))

(***************************************************************************)
(* The Counter self.keywords                                               *)
(***************************************************************************)
Keys(kw) == {kw[i].k : i \in 1..Len(kw)}

\* Counter.__getitem__: 0 for a missing key
Get(kw, c) ==
  IF c \in Keys(kw) THEN kw[CHOOSE i \in 1..Len(kw) : kw[i].k = c].v ELSE 0

\* self.keywords[c] = w in place of += w
Inc_assign(kw, c, w) ==
  IF c \in Keys(kw)
  THEN [i \in 1..Len(kw) |-> IF kw[i].k = c THEN [k |-> c, v |-> w] ELSE kw[i]]
  ELSE Append(kw, [k |-> c, v |-> w])

\* self.keywords[c] += w: a new key goes to the end of the dict
Inc(kw, c, w) ==
  IF c \in Keys(kw)
  THEN [i \in 1..Len(kw) |-> IF kw[i].k = c THEN [k |-> c, v |-> kw[i].v + w] ELSE kw[i]]
  ELSE Append(kw, [k |-> c, v |-> w])

(***************************************************************************)
(* N-grams and weights of _extract_keywords_from_text                      *)
(***************************************************************************)
\* range(len(words)-n) in place of range(len(words)-(n-1))
ngrams_short(words, n) ==
  [i \in 1..(IF Len(words) - n > 0 THEN Len(words) - n ELSE 0) |->
     join(SubSeq(words, i, i + n - 1))]

\* [' '.join(words[i:i+n]) for i in range(len(words)-(n-1))]
ngrams(words, n) ==
  [i \in 1..(IF Len(words) - (n - 1) > 0 THEN Len(words) - (n - 1) ELSE 0) |->
     join(SubSeq(words, i, i + n - 1))]

\* the unigram test without len(word) > 2
accept_word_any_length(word) == word \notin stop_words

\* line 185: word not in self.stop_words and len(word) > 2
accept_word(word) == word \notin stop_words /\ Len(word) > 2

\* any(...) in place of all(...)
accept_ngram_any(ngram) == \E w \in {split(ngram)[i] : i \in 1..Len(split(ngram))} : w \notin stop_words

\* lines 191, 197: all(w not in self.stop_words for w in ngram.split())
accept_ngram(ngram) == \A w \in {split(ngram)[i] : i \in 1..Len(split(ngram))} : w \notin stop_words

\* the weights one too low: 0/1/2 and 1/2/3
weight_from_zero(n, is_important) ==
  IF n = 1 THEN (IF is_important THEN 1 ELSE 0)
  ELSE IF n = 2 THEN (IF is_important THEN 2 ELSE 1)
  ELSE (IF is_important THEN 3 ELSE 2)

\* the same increment for the three orders: 1 (NORMAL) or 2 (IMPORTANT)
weight_of_tier_only(n, is_important) == IF is_important THEN 2 ELSE 1

\* lines 186, 192, 198: the increment of an n-gram of order n
weight(n, is_important) ==
  IF n = 1 THEN (IF is_important THEN 2 ELSE 1)
  ELSE IF n = 2 THEN (IF is_important THEN 3 ELSE 2)
  ELSE (IF is_important THEN 4 ELSE 3)

\* one of the three for loops, over the elements lo..hi of its list in order
RECURSIVE count_loop(_, _, _, _, _, _)
count_loop(kw, grams, lo, hi, n, is_important) ==
  IF lo > hi THEN kw
  ELSE IF lo = hi
       THEN LET ok == IF n = 1 THEN accept_word(grams[lo]) ELSE accept_ngram(grams[lo])
            IN  IF ok THEN Inc(kw, grams[lo], weight(n, is_important)) ELSE kw
  ELSE LET mid == (lo + hi) \div 2
           first == count_loop(kw, grams, lo, mid, n, is_important)
       IN  \* (the test only makes the first half be computed first)
           IF Len(first) >= 0 THEN count_loop(first, grams, mid + 1, hi, n, is_important)
           ELSE first

\* Python None where a str is expected (no str of the model equals it)
None == <<"None">>

\* _extract_keywords_from_text(text, is_important) applied to the Counter kw
extract_keywords_from_text(kw, text, is_important) ==
  IF text = None \/ text = <<>> THEN kw
  ELSE LET words == split(clean(text))
           bigrams == ngrams(words, 2)
           trigrams == ngrams(words, 3)
           k1 == count_loop(kw, words, 1, Len(words), 1, is_important)
           k2 == count_loop(k1, bigrams, 1, Len(bigrams), 2, is_important)
       IN  IF Len(k1) >= 0 /\ Len(k2) >= 0
           THEN count_loop(k2, trigrams, 1, Len(trigrams), 3, is_important)
           ELSE kw

(***************************************************************************)
(* optimize_keywords                                                       *)
(***************************************************************************)
\* head(100)
TopN == 100

\* line 214 without the isdigit() test
keep_keyword_length_only(x) == Len(x) > 2

\* line 214: len(x) > 2 and not x.isdigit()
keep_keyword(x) == Len(x) > 2 /\ ~isdigit(x)

\* keyword_series[keyword_series.index.map(...)]
filter_series(kw) ==
  Pick(kw, [i \in 1..Len(kw) |-> keep_keyword(kw[i].k)], 1, Len(kw))

\* sort_values(ascending=False) sorts by the value alone with the default
\* kind 'quicksort', which is not stable: the order among entries of equal
\* value is whatever the sort of the installed numpy leaves.  Two such
\* orders are modelled: equal values in the order of the series ("kept") or
\* in the opposite order ("reversed").
TieOrders == {"kept", "reversed"}

sort_values(s, tie) ==
  LET n == Len(s)
      pos == [i \in 1..n |->
                Cardinality({j \in 1..n : s[j].v > s[i].v})
                + Cardinality({j \in 1..n : /\ s[j].v = s[i].v
                                            /\ IF tie = "kept" THEN j <= i ELSE j >= i})]
  IN  [r \in 1..n |-> s[CHOOSE i \in 1..n : pos[i] = r]]

\* head(100) replaced by tail(100)
tail(s, n) == IF Len(s) <= n THEN s ELSE SubSeq(s, Len(s) - n + 1, Len(s))

head(s, n) == IF Len(s) <= n THEN s ELSE SubSeq(s, 1, n)

optimize_keywords(kw, tie) ==
  IF kw = <<>> THEN <<>>
  ELSE head(sort_values(filter_series(kw), tie), TopN)

(***************************************************************************)
(* Inputs: queries, and what the search request and the linked pages       *)
(* return                                                                  *)
(***************************************************************************)
\* a multi-word query
QueryCoffeeBeans == <<"c","o","f","f","e","e"," ","b","e","a","n","s">>

\* a single-word query
QueryTea == <<"T","e","a">>

\* a query that is empty after strip()
QueryBlank == <<" ">>

\* a 'People also ask' question
PaaWhatIsTea == <<"w","h","a","t"," ","i","s"," ","t","e","a","?">>

\* a question block without text
PaaBlank == <<" ">>

\* the heading of the related searches block
RelatedHeading == <<"R","e","l","a","t","e","d"," ","s","e","a","r","c","h","e","s">>

\* a related search
RelatedAiTea == <<"a","i"," ","t","e","a">>

\* page bodies
PageBuy == <<"b","u","y"," ","c","o","f","f","e","e"," ","b","e","a","n","s">>

PageZen == <<"z","e","n"," ","t","e","a">>

PageNumbers == <<"t","e","a"," ","4","2"," ","1","2","3">>

PageRepeat == <<"t","e","a"," ","t","e","a"," ","t","e","a"," ","t","e","a">>

\* line 153
prefixes ==
  <<<<"h","o","w"," ","t","o">>,
    <<"w","h","a","t"," ","i","s">>,
    <<"b","e","s","t">>,
    <<"t","o","p">>,
    <<"g","u","i","d","e"," ","t","o">>>>

\* A page body of LongLen distinct words, none of them a stop word: it
\* yields more than TopN keywords.
LongLen == 35

LongLetters == <<"a","b","c","d","e","f">>

LongWords ==
  [i \in 1..LongLen |->
     <<"q", LongLetters[((i - 1) \div 6) + 1], LongLetters[((i - 1) % 6) + 1]>>]

PageLong == join(LongWords)

\* the value of request.form.get('query', '') / data['query']
RawQueries == {QueryCoffeeBeans, QueryTea, QueryBlank}

\* trafilatura on one url: a text, None (nothing downloaded or extracted),
\* or an exception
Page(text) == [raises |-> FALSE, text |-> text]

PageRaises == [raises |-> TRUE, text |-> None]

PaaLists == {<<>>, <<PaaWhatIsTea, PaaBlank>>}

RelatedLists == {<<>>, <<RelatedHeading, RelatedAiTea>>}

PageLists ==
  { <<>>,
    <<Page(PageBuy), PageRaises, Page(PageZen)>>,
    <<Page(None), Page(PageNumbers)>> }

\* a 200 answer with the related search 'best coffee beans online' and one
\* result page 'buy coffee beans'
RelatedBestOnline == <<"b","e","s","t"," ","c","o","f","f","e","e"," ","b","e","a","n","s"," ","o","n","l","i","n","e">>

BestOnlineOutcome ==
  [raises |-> FALSE, status |-> 200, paa |-> <<>>,
   related |-> <<RelatedBestOnline>>, urls |-> <<Page(PageBuy)>>]

\* requests.get(search_url): raises, or answers with a status code; a 200
\* answer holds the texts of the question blocks, of the related searches
\* and the result urls (each url stands for what trafilatura gets from it)
SearchOutcomes ==
  { [raises |-> TRUE, status |-> 0, paa |-> <<>>, related |-> <<>>, urls |-> <<>>],
    [raises |-> FALSE, status |-> 503, paa |-> <<>>, related |-> <<>>, urls |-> <<>>] }
  \cup
  { [raises |-> FALSE, status |-> 200, paa |-> p, related |-> r, urls |-> u] :
      p \in PaaLists, r \in RelatedLists, u \in PageLists }
  \cup
  { [raises |-> FALSE, status |-> 200, paa |-> <<>>, related |-> <<>>,
     urls |-> <<Page(PageLong)>>],
    BestOnlineOutcome }

\* the outcomes used where two requests run at the same time
ConcOutcomes ==
  { [raises |-> FALSE, status |-> 503, paa |-> <<>>, related |-> <<>>, urls |-> <<>>],
    [raises |-> FALSE, status |-> 200, paa |-> <<PaaWhatIsTea, PaaBlank>>,
     related |-> <<RelatedHeading, RelatedAiTea>>,
     urls |-> <<Page(PageBuy), PageRaises, Page(PageZen)>>] }

NoOutcome == [raises |-> FALSE, status |-> 0, paa |-> <<>>, related |-> <<>>, urls |-> <<>>]

(***************************************************************************)
(* The agent: its four data fields as a record, and its methods            *)
(***************************************************************************)
\* reset() without self.keywords = Counter()
reset_keeps_keywords(a) ==
  [keywords |-> a.keywords, related_terms |-> <<>>, people_also_ask |-> <<>>,
   website_keywords |-> <<>>]

\* reset()
reset(a) ==
  [keywords |-> <<>>, related_terms |-> <<>>, people_also_ask |-> <<>>,
   website_keywords |-> <<>>]

\* __init__: reset() on a new object
NewAgent == reset([keywords |-> <<>>])

\* lines 154-155: the loop over the prefixes
RECURSIVE append_prefixed(_, _, _)
append_prefixed(terms, query, i) ==
  IF i > Len(prefixes) THEN terms
  ELSE append_prefixed(Append(terms, prefixes[i] \o <<" ">> \o query), query, i + 1)

\* generate_related_terms(query)
generate_related_terms(a, query) ==
  LET query_words == split(lower(query))
      t1 == Append(a.related_terms, query)
      t2 == IF Len(query_words) > 1 THEN append_prefixed(t1, query, 1) ELSE t1
  IN  [a EXCEPT !.related_terms = t2,
                !.keywords = extract_keywords_from_text(a.keywords, query, TRUE)]

\* lines 104-108: one iteration of the loop over the question blocks
paa_step(a, text) ==
  LET question == strip(text)
  IN  IF question # <<>>
      THEN [a EXCEPT !.people_also_ask = Append(@, question),
                     !.keywords = extract_keywords_from_text(@, question, TRUE)]
      ELSE a

\* lines 112-116: one iteration of the loop over the related searches
related_step(a, text) ==
  LET term == strip(text)
  IN  IF term # <<>> /\ ~startswith(term, <<"R","e","l","a","t","e","d">>)
      THEN [a EXCEPT !.related_terms = Append(@, term),
                     !.keywords = extract_keywords_from_text(@, term, TRUE)]
      ELSE a

\* line 120
max_sites == 5

\* lines 123-131: one iteration of the loop over urls[:max_sites]; an
\* exception is caught and the url skipped
site_step(a, page) ==
  IF page.raises \/ page.text = None \/ page.text = <<>> THEN a
  ELSE [a EXCEPT !.keywords = extract_keywords_from_text(@, page.text, FALSE)]

(***************************************************************************)
(* State                                                                   *)
(***************************************************************************)
VARIABLES
  keywords,          \* keyword_agent.keywords
  related_terms,     \* keyword_agent.related_terms
  people_also_ask,   \* keyword_agent.people_also_ask
  website_keywords,  \* keyword_agent.website_keywords
  workers,           \* the request threads that serve requests
  net,               \* what the search request can return in this behaviour
  requests,          \* number of requests received so far
  pc,                \* per thread: where it is in index() / run()
  query,             \* per thread: the local 'query'
  outcome,           \* per thread: what the search request of this run returned
  idx,               \* per thread: position in the loop being executed
  success,           \* per thread: the local 'success' of run()
  result,            \* per thread: the value run() returns
  response,          \* per thread: the last response of the route
  docs,              \* aggregation: the set of documents to extract
  todoA, tabA,       \* aggregation: documents left and Counter, first order
  todoB, tabB,       \* aggregation: documents left and Counter, second order
  given,             \* normalisation: the text given
  cleaned,           \* normalisation: the cleaned text
  recleaned,         \* normalisation: the cleaned text, cleaned again
  table,             \* ranking: the Counter given
  ranked,            \* ranking: the Series returned
  alt,               \* templates/: the module-level agent, its six list fields
  call               \* templates/: the frame of agent.run(query)

agent_vars == <<keywords, related_terms, people_also_ask, website_keywords>>

thread_vars == <<pc, query, outcome, idx, success, result, response>>

agg_vars == <<docs, todoA, tabA, todoB, tabB>>

norm_vars == <<given, cleaned, recleaned>>

rank_vars == <<table, ranked>>

alt_vars == <<alt, call>>

side_vars == <<norm_vars, rank_vars, alt_vars>>

vars == <<agent_vars, workers, net, requests, thread_vars, agg_vars, side_vars>>

\* bounds of the model
MaxRequests == 2

MaxDocs == 2

Threads == {1, 2}

\* the module-level keyword_agent of app.py as a record
Agent ==
  [keywords |-> keywords, related_terms |-> related_terms,
   people_also_ask |-> people_also_ask, website_keywords |-> website_keywords]

SetAgent(a) ==
  /\ keywords' = a.keywords
  /\ related_terms' = a.related_terms
  /\ people_also_ask' = a.people_also_ask
  /\ website_keywords' = a.website_keywords

\* Position reached in fetch_keywords when the loop 'phase' is to run its
\* i-th iteration: loops with nothing left are passed over, and after the
\* last loop fetch_keywords returns True.
LoopPos(o, phase, i) ==
  IF phase = "paa" /\ i <= Len(o.paa) THEN <<"paa", i>>
  ELSE IF phase = "paa" /\ Len(o.related) >= 1 THEN <<"related", 1>>
  ELSE IF phase = "related" /\ i <= Len(o.related) THEN <<"related", i>>
  ELSE IF phase \in {"paa", "related"} /\ Len(head(o.urls, max_sites)) >= 1 THEN <<"sites", 1>>
  ELSE IF phase = "sites" /\ i <= Len(head(o.urls, max_sites)) THEN <<"sites", i>>
  ELSE <<"optimize", 0>>

\* the exception of a url taken by the handler of lines 138-140 instead of
\* the one of lines 130-131: the urls after it are not visited
after_site_abort(o, i) ==
  IF head(o.urls, max_sites)[i].raises THEN <<"optimize", 0>>
  ELSE LoopPos(o, "sites", i + 1)

\* lines 122-131: the try/except is inside the loop, so after the i-th url,
\* whether it raised or not, the loop goes on with the next one
after_site(o, i) == LoopPos(o, "sites", i + 1)

Goto(t, pos) ==
  /\ pc' = [pc EXCEPT ![t] = pos[1]]
  /\ idx' = [idx EXCEPT ![t] = pos[2]]
  /\ success' = [success EXCEPT ![t] = (pos[1] = "optimize")]

(***************************************************************************)
(* Initial states                                                          *)
(***************************************************************************)
InitCommon ==
  /\ keywords = NewAgent.keywords
  /\ related_terms = NewAgent.related_terms
  /\ people_also_ask = NewAgent.people_also_ask
  /\ website_keywords = NewAgent.website_keywords
  /\ requests = 0
  /\ pc = [t \in Threads |-> "idle"]
  /\ query = [t \in Threads |-> <<>>]
  /\ outcome = [t \in Threads |-> NoOutcome]
  /\ idx = [t \in Threads |-> 0]
  /\ success = [t \in Threads |-> FALSE]
  /\ result = [t \in Threads |-> <<>>]
  /\ response = [t \in Threads |-> "none"]

NoAggregation ==
  /\ docs = {}
  /\ todoA = {}
  /\ tabA = <<>>
  /\ todoB = {}
  /\ tabB = <<>>

NoNormalisation ==
  /\ given = None
  /\ cleaned = None
  /\ recleaned = None

\* nothing returned yet
NotRanked == [returned |-> FALSE, series |-> <<>>]

NoRanking ==
  /\ table = <<>>
  /\ ranked = NotRanked

\* templates/keyword_research.py, __init__: the six lists are empty
AltNewAgent ==
  [keywords |-> <<>>, search_titles |-> <<>>, search_snippets |-> <<>>,
   top_websites |-> <<>>, related_searches |-> <<>>, people_also_ask |-> <<>>]

\* no call of run() in progress
AltIdle ==
  [pc |-> "idle", query |-> <<>>, responses |-> <<>>, page |-> None, links |-> <<>>,
   idx |-> 0, success |-> FALSE, result |-> [from |-> "none", empty |-> TRUE]]

NoAlternate ==
  /\ alt = AltNewAgent
  /\ call = AltIdle

NoSide == NoNormalisation /\ NoRanking /\ NoAlternate

\* one request at a time
Init == InitCommon /\ NoAggregation /\ NoSide /\ workers = {1} /\ net = SearchOutcomes

\* two requests served by two threads on the one keyword_agent
InitConc == InitCommon /\ NoAggregation /\ NoSide /\ workers = Threads /\ net = ConcOutcomes

(***************************************************************************)
(* The routes index() / api_keyword_research() and run()                   *)
(***************************************************************************)
\* the two routes that call keyword_agent.run: index() and
\* api_keyword_research()
Routes == {"index", "api"}

\* what a route answers to an empty query: index() flashes a warning and
\* renders the page (line 31), api_keyword_research() answers 400 (line 81)
reject_response(route) == IF route = "index" THEN "flash_warning" ELSE "400"

\* the query taken from the request without .strip()
form_query_unstripped(raw) == raw

\* line 28 / line 78: the local 'query' of the route
form_query(raw) == strip(raw)

\* lines 28-31 / 78-81 of app.py: the query is empty after strip()
Reject ==
  \E t \in workers :
    /\ pc[t] = "idle"
    /\ requests < MaxRequests
    /\ \E raw \in RawQueries :
         /\ form_query(raw) = <<>>
         /\ query' = [query EXCEPT ![t] = form_query(raw)]
    /\ requests' = requests + 1
    /\ \E route \in Routes : response' = [response EXCEPT ![t] = reject_response(route)]
    /\ UNCHANGED <<agent_vars, workers, net, pc, outcome, idx, success, result, agg_vars, side_vars>>

\* lines 28-38 / 78-85 of app.py: keyword_agent.run(query) is called
Start ==
  \E t \in workers :
    /\ pc[t] = "idle"
    /\ requests < MaxRequests
    /\ \E raw \in RawQueries :
         /\ form_query(raw) # <<>>
         /\ query' = [query EXCEPT ![t] = form_query(raw)]
    /\ requests' = requests + 1
    /\ pc' = [pc EXCEPT ![t] = "generate"]
    /\ UNCHANGED <<agent_vars, workers, net, outcome, idx, success, result, response, agg_vars, side_vars>>

\* run(), line 237: self.generate_related_terms(query)
Generate ==
  \E t \in workers :
    /\ pc[t] = "generate"
    /\ SetAgent(generate_related_terms(Agent, query[t]))
    /\ pc' = [pc EXCEPT ![t] = "fetch"]
    /\ UNCHANGED <<workers, net, requests, query, outcome, idx, success, result, response, agg_vars, side_vars>>

\* fetch_keywords, lines 74-86 and 138-140: reset(), then the search
\* request; an exception or a status other than 200 returns False
Fetch ==
  \E t \in workers :
    /\ pc[t] = "fetch"
    /\ SetAgent(reset(Agent))
    /\ \E o \in net :
         /\ outcome' = [outcome EXCEPT ![t] = o]
         /\ IF o.raises \/ o.status # 200
            THEN /\ pc' = [pc EXCEPT ![t] = "optimize"]
                 /\ idx' = [idx EXCEPT ![t] = 0]
                 /\ success' = [success EXCEPT ![t] = FALSE]
            ELSE Goto(t, LoopPos(o, "paa", 1))
    /\ UNCHANGED <<workers, net, requests, query, result, response, agg_vars, side_vars>>

\* fetch_keywords, lines 104-108
PaaStep ==
  \E t \in workers :
    /\ pc[t] = "paa"
    /\ SetAgent(paa_step(Agent, outcome[t].paa[idx[t]]))
    /\ Goto(t, LoopPos(outcome[t], "paa", idx[t] + 1))
    /\ UNCHANGED <<workers, net, requests, query, outcome, result, response, agg_vars, side_vars>>

\* fetch_keywords, lines 112-116
RelatedStep ==
  \E t \in workers :
    /\ pc[t] = "related"
    /\ SetAgent(related_step(Agent, outcome[t].related[idx[t]]))
    /\ Goto(t, LoopPos(outcome[t], "related", idx[t] + 1))
    /\ UNCHANGED <<workers, net, requests, query, outcome, result, response, agg_vars, side_vars>>

\* fetch_keywords, lines 122-131
SiteStep ==
  \E t \in workers :
    /\ pc[t] = "sites"
    /\ SetAgent(site_step(Agent, head(outcome[t].urls, max_sites)[idx[t]]))
    /\ Goto(t, after_site(outcome[t], idx[t]))
    /\ UNCHANGED <<workers, net, requests, query, outcome, result, response, agg_vars, side_vars>>

\* run(), line 246: return self.optimize_keywords()
Optimize ==
  \E t \in workers :
    /\ pc[t] = "optimize"
    /\ \E tie \in TieOrders :
         result' = [result EXCEPT ![t] = optimize_keywords(keywords, tie)]
    /\ pc' = [pc EXCEPT ![t] = "done"]
    /\ UNCHANGED <<agent_vars, workers, net, requests, query, outcome, idx, success, response, agg_vars, side_vars>>

\* lines 43-55 / 87-96 of app.py: the keywords, or the error for an empty
\* Series
Return ==
  \E t \in workers :
    /\ pc[t] = "done"
    /\ response' = [response EXCEPT ![t] = IF result[t] # <<>> THEN "keywords" ELSE "error"]
    /\ pc' = [pc EXCEPT ![t] = "idle"]
    /\ query' = [query EXCEPT ![t] = <<>>]
    /\ outcome' = [outcome EXCEPT ![t] = NoOutcome]
    /\ idx' = [idx EXCEPT ![t] = 0]
    /\ success' = [success EXCEPT ![t] = FALSE]
    /\ result' = [result EXCEPT ![t] = <<>>]
    /\ UNCHANGED <<agent_vars, workers, net, requests, agg_vars, side_vars>>

Next ==
  \/ Reject
  \/ Start
  \/ Generate
  \/ Fetch
  \/ PaaStep
  \/ RelatedStep
  \/ SiteStep
  \/ Optimize
  \/ Return

Spec == Init /\ [][Next]_vars

SpecConc == InitConc /\ [][Next]_vars

(***************************************************************************)
(* Aggregation of a list of documents in two orders                        *)
(***************************************************************************)
\* a text of white space and punctuation only
TextNoise == <<" ","?",".","?"," ",".",".",".","\n">>

AggTexts == {PaaWhatIsTea, PageBuy, PageZen, PageRepeat, <<>>, None, TextNoise}

AggDocs == {[text |-> x, is_important |-> b] : x \in AggTexts, b \in BOOLEAN}

InitAgg ==
  /\ InitCommon
  /\ NoSide
  /\ workers = {}
  /\ net = {}
  /\ docs \in {ds \in SUBSET AggDocs : Cardinality(ds) = MaxDocs}
  /\ todoA = docs
  /\ tabA = <<>>
  /\ todoB = docs
  /\ tabB = <<>>

\* _extract_keywords_from_text on any document that is left
ExtractA ==
  /\ \E d \in todoA :
       /\ tabA' = extract_keywords_from_text(tabA, d.text, d.is_important)
       /\ todoA' = todoA \ {d}
  /\ UNCHANGED <<agent_vars, workers, net, requests, thread_vars, docs, todoB, tabB, side_vars>>

ExtractB ==
  /\ \E d \in todoB :
       /\ tabB' = extract_keywords_from_text(tabB, d.text, d.is_important)
       /\ todoB' = todoB \ {d}
  /\ UNCHANGED <<agent_vars, workers, net, requests, thread_vars, docs, todoA, tabA, side_vars>>

NextAgg == ExtractA \/ ExtractB

SpecAgg == InitAgg /\ [][NextAgg]_vars

(***************************************************************************)
(* The cleaning of lines 172-178 on its own                                *)
(***************************************************************************)
\* the texts given: up to MaxPieces of these pieces in a row, and the text
\* 'foo<br>bar'
MaxPieces == 3

NormPieces ==
  { <<"a","b">>, <<"T">>, <<"1">>, <<"_">>, <<"?">>, <<" ">>,
    <<"<","b",">">>, <<"w","w","w",".","a">>, <<"h","t","t","p",":","/","/","a">> }

TextFooBrBar == <<"f","o","o","<","b","r",">","b","a","r">>

RECURSIVE Flatten(_)
Flatten(ps) == IF ps = <<>> THEN <<>> ELSE Head(ps) \o Flatten(Tail(ps))

NormTexts ==
  {Flatten(ps) : ps \in UNION {[1..n -> NormPieces] : n \in 1..MaxPieces}}
  \cup {TextFooBrBar}

InitNorm ==
  /\ InitCommon
  /\ NoAggregation
  /\ NoRanking
  /\ NoAlternate
  /\ workers = {}
  /\ net = {}
  /\ given \in NormTexts
  /\ cleaned = None
  /\ recleaned = None

\* lines 172-178 on the text given
Normalize ==
  /\ cleaned = None
  /\ cleaned' = clean(given)
  /\ UNCHANGED <<agent_vars, workers, net, requests, thread_vars, agg_vars, given, recleaned, rank_vars, alt_vars>>

\* lines 172-178 on the text they returned
Renormalize ==
  /\ cleaned # None
  /\ recleaned = None
  /\ recleaned' = clean(cleaned)
  /\ UNCHANGED <<agent_vars, workers, net, requests, thread_vars, agg_vars, given, cleaned, rank_vars, alt_vars>>

NextNorm == Normalize \/ Renormalize

SpecNorm == InitNorm /\ [][NextNorm]_vars

(***************************************************************************)
(* optimize_keywords on a Counter of any content                           *)
(***************************************************************************)
\* the Counters given: up to MaxTable of these keys, in any order, each with
\* a score of 1 or 2
MaxTable == 2

RankKeys ==
  { <<"4","2">>, <<"1","2","3">>, <<"a","i">>, <<"t","e","a">>,
    <<"a"," ","b">>, <<"7">> }

RankTables ==
  {tb \in UNION {[1..n -> [k : RankKeys, v : 1..2]] : n \in 0..MaxTable} :
     \A i, j \in 1..Len(tb) : i # j => tb[i].k # tb[j].k}

InitRank ==
  /\ InitCommon
  /\ NoAggregation
  /\ NoNormalisation
  /\ NoAlternate
  /\ workers = {}
  /\ net = {}
  /\ table \in RankTables
  /\ ranked = NotRanked

\* lines 200-224 on the Counter given
Rank ==
  /\ ~ranked.returned
  /\ \E tie \in TieOrders :
       ranked' = [returned |-> TRUE, series |-> optimize_keywords(table, tie)]
  /\ UNCHANGED <<agent_vars, workers, net, requests, thread_vars, agg_vars, norm_vars, table, alt_vars>>

NextRank == Rank

SpecRank == InitRank /\ [][NextRank]_vars

(***************************************************************************)
(* The alternate agent of templates/keyword_research.py                    *)
(***************************************************************************)
\* lines 40-47: reset()
alt_reset(a) == AltNewAgent

\* lines 296-299
alt_prefixes ==
  << <<"h","o","w"," ","t","o">>, <<"w","h","a","t"," ","i","s">>, <<"w","h","y">>, <<"b","e","s","t">>, <<"t","o","p">>, <<"g","u","i","d","e"," ","t","o">> >>

\* words[i:] + words[:i]
rotate(words, i) == SubSeq(words, i + 1, Len(words)) \o SubSeq(words, 1, i)

\* lines 286-307: generate_related_terms(query), the list returned
alt_generate_related_terms(q) ==
  LET words == split(q)
      prefixed == [i \in 1..Len(alt_prefixes) |-> alt_prefixes[i] \o <<" ">> \o q]
      rotated == IF Len(words) > 1
                 THEN [i \in 1..(Len(words) - 1) |-> join(rotate(words, i))]
                 ELSE <<>>
  IN  <<q>> \o prefixed \o rotated

\* lines 276-282: the list set by the except handler
alt_fallback(q) ==
  << q, <<"b","e","s","t"," ">> \o q, q \o <<" ","g","u","i","d","e">>, <<"h","o","w"," ","t","o"," ">> \o q, q \o <<" ","t","i","p","s">> >>

\* lines 106-118: the title and the snippet of each result block, stripped
RECURSIVE search_results(_)
search_results(blocks) ==
  IF blocks = <<>> THEN <<>>
  ELSE (IF Head(blocks).title # None THEN <<strip(Head(blocks).title)>> ELSE <<>>)
       \o (IF Head(blocks).snippet # None THEN <<strip(Head(blocks).snippet)>> ELSE <<>>)
       \o search_results(Tail(blocks))

result_titles(blocks) ==
  LET kept == Pick(blocks, [i \in 1..Len(blocks) |-> blocks[i].title # None], 1, Len(blocks))
  IN  [i \in 1..Len(kept) |-> strip(kept[i].title)]

result_snippets(blocks) ==
  LET kept == Pick(blocks, [i \in 1..Len(blocks) |-> blocks[i].snippet # None], 1, Len(blocks))
  IN  [i \in 1..Len(kept) |-> strip(kept[i].snippet)]

\* line 144
min_question_len == 10

\* lines 141-144: the questions found by the selector, stripped, those of
\* more than 10 characters
questions(texts) ==
  LET stripped == [i \in 1..Len(texts) |-> strip(texts[i])]
  IN  Pick(stripped, [i \in 1..Len(texts) |-> Len(stripped[i]) > min_question_len], 1, Len(texts))

\* lines 170-174: the related searches found by the selector, stripped,
\* those that are not empty
related_found(texts) ==
  LET stripped == [i \in 1..Len(texts) |-> strip(texts[i])]
  IN  Pick(stripped, [i \in 1..Len(texts) |-> stripped[i] # <<>>], 1, Len(texts))

\* line 205
max_links == 5

\* lines 203-206: the first max_links distinct links
RECURSIVE unique_links(_, _)
unique_links(links, seen) ==
  IF links = <<>> THEN seen
  ELSE unique_links(Tail(links),
                    IF (\A i \in 1..Len(seen) : seen[i].url # Head(links).url)
                       /\ Len(seen) < max_links
                    THEN Append(seen, Head(links)) ELSE seen)

\* line 233
min_site_len == 200

\* lines 101-206: what is scraped from the page of the search response
alt_scrape(a, page) ==
  LET sr == search_results(page.results)
      paa == questions(page.paa)
      rel == related_found(page.related)
      a1 == [a EXCEPT !.search_titles = @ \o result_titles(page.results),
                      !.search_snippets = @ \o result_snippets(page.results),
                      !.keywords = @ \o sr]
      a2 == IF paa # <<>>
            THEN [a1 EXCEPT !.people_also_ask = paa, !.keywords = @ \o paa]
            ELSE a1
  IN  IF rel # <<>>
      THEN [a2 EXCEPT !.related_searches = rel, !.keywords = @ \o rel]
      ELSE a2

\* lines 209-242: one iteration of the loop over unique_links; an exception
\* is caught and the link skipped
alt_site_step(a, site) ==
  IF site.raises \/ site.text = None \/ site.text = <<>> THEN a
  ELSE IF Len(site.text) > min_site_len
       THEN [a EXCEPT !.top_websites = Append(@, site.text),
                      !.keywords = Append(@, site.text)]
       ELSE a

\* line 260
min_word_len == 4

\* lines 245-267: the generated terms are added, then the fallback for a
\* list that is empty or has one entry and no website
alt_generate_step(a, q) ==
  LET a1 == [a EXCEPT !.keywords = @ \o alt_generate_related_terms(q)]
      ws == split(q)
      words == IF \E i \in 1..Len(q) : q[i] = " "
               THEN Pick(ws, [i \in 1..Len(ws) |-> Len(ws[i]) >= min_word_len], 1, Len(ws))
               ELSE <<>>
  IN  IF a1.keywords = <<>> \/ (Len(a1.keywords) = 1 /\ Len(a1.top_websites) = 0)
      THEN [a1 EXCEPT !.keywords =
              @ \o <<q>> \o words \o << <<"b","e","s","t"," ">> \o q, q \o <<" ","g","u","i","d","e">>, <<"h","o","w"," ","t","o"," ">> \o q, q \o <<" ","t","i","p","s">> >>]
      ELSE a1

\* the first request answered with another status: False at once, without
\* the retry of lines 89-93
alt_after_first_no_retry(o) ==
  IF o.raises THEN "except"
  ELSE IF o.status # 200 THEN "failed"
  ELSE "scrape"

\* lines 85-93: after the first requests.get, an exception goes to the
\* handler of line 272, a status other than 200 to the retry
alt_after_first(o) ==
  IF o.raises THEN "except"
  ELSE IF o.status # 200 THEN "retry"
  ELSE "scrape"

\* lines 93-97: after the second requests.get
alt_after_retry(o) ==
  IF o.raises THEN "except"
  ELSE IF o.status # 200 THEN "failed"
  ELSE "scrape"

\* the inputs: queries, and what a search request can return
AltQueries == {QueryTea, QueryCoffeeBeans}

\* a page body of more than 200 characters
SiteLong == Flatten([i \in 1..30 |-> <<"z","e","n"," ","t","e","a"," ">>])

Site(url, text) == [url |-> url, raises |-> FALSE, text |-> text]

SiteRaises(url) == [url |-> url, raises |-> TRUE, text |-> None]

AltResultLists == {<<>>, <<[title |-> PageZen, snippet |-> None], [title |-> None, snippet |-> PageBuy]>>}

AltPaaLists == {<<>>, <<PaaWhatIsTea, RelatedAiTea>>}

AltRelatedLists == {<<>>, <<RelatedAiTea, PaaBlank>>}

AltLinkLists ==
  { <<>>,
    <<Site("u1", SiteLong), Site("u1", SiteLong), SiteRaises("u2"), Site("u3", PageZen)>>,
    <<Site("u4", None)>> }

\* the page of a 200 answer; parsing a broken one raises
AltPages ==
  { [broken |-> FALSE, results |-> r, paa |-> p, related |-> l, links |-> k] :
      r \in AltResultLists, p \in AltPaaLists, l \in AltRelatedLists, k \in AltLinkLists }
  \cup {[broken |-> TRUE, results |-> <<>>, paa |-> <<>>, related |-> <<>>, links |-> <<>>]}

NoPage == [broken |-> FALSE, results |-> <<>>, paa |-> <<>>, related |-> <<>>, links |-> <<>>]

AltOutcomes ==
  { [raises |-> TRUE, status |-> 0, page |-> NoPage],
    [raises |-> FALSE, status |-> 503, page |-> NoPage] }
  \cup {[raises |-> FALSE, status |-> 200, page |-> pg] : pg \in AltPages}

InitAlt ==
  /\ InitCommon
  /\ NoAggregation
  /\ NoNormalisation
  /\ NoRanking
  /\ workers = {}
  /\ net = {}
  /\ alt = AltNewAgent
  /\ call = [AltIdle EXCEPT !.page = NoPage]

other_vars == <<agent_vars, workers, net, requests, thread_vars, agg_vars, norm_vars, rank_vars>>

\* where fetch_keywords goes after a search request with outcome o: to the
\* except handler (it sets the fallback list and returns True), to the
\* retry, to return False, or on to the scraping of the page
AltAfterRequest(a, o, to) ==
  /\ alt' = IF to = "except" THEN [a EXCEPT !.keywords = alt_fallback(call.query)] ELSE a
  /\ call' = [call EXCEPT !.responses = Append(@, [raises |-> o.raises, status |-> o.status]),
                          !.page = o.page,
                          !.pc = IF to \in {"except", "failed"} THEN "fetched" ELSE to,
                          !.success = (to = "except")]

\* templates/app.py, lines 42 / 102: agent.run(query)
AltRun ==
  /\ call.pc = "idle"
  /\ \E q \in AltQueries : call' = [AltIdle EXCEPT !.pc = "request", !.query = q, !.page = NoPage]
  /\ UNCHANGED <<alt, other_vars>>

\* fetch_keywords, lines 61-87: reset() and the first search request
AltRequest ==
  /\ call.pc = "request"
  /\ \E o \in AltOutcomes : AltAfterRequest(alt_reset(alt), o, alt_after_first(o))
  /\ UNCHANGED other_vars

\* fetch_keywords, lines 89-97: the second search request
AltRetry ==
  /\ call.pc = "retry"
  /\ \E o \in AltOutcomes : AltAfterRequest(alt, o, alt_after_retry(o))
  /\ UNCHANGED other_vars

\* fetch_keywords, lines 100-206: the page is parsed and scraped
AltScrape ==
  /\ call.pc = "scrape"
  /\ IF call.page.broken
     THEN /\ alt' = [alt EXCEPT !.keywords = alt_fallback(call.query)]
          /\ call' = [call EXCEPT !.pc = "fetched", !.success = TRUE]
     ELSE LET links == unique_links(call.page.links, <<>>)
          IN  /\ alt' = alt_scrape(alt, call.page)
              /\ call' = [call EXCEPT !.links = links,
                                      !.idx = IF links = <<>> THEN 0 ELSE 1,
                                      !.pc = IF links = <<>> THEN "generate" ELSE "sites"]
  /\ UNCHANGED other_vars

\* fetch_keywords, lines 209-242
AltSiteStep ==
  /\ call.pc = "sites"
  /\ alt' = alt_site_step(alt, call.links[call.idx])
  /\ call' = IF call.idx < Len(call.links) THEN [call EXCEPT !.idx = @ + 1]
             ELSE [call EXCEPT !.idx = 0, !.pc = "generate"]
  /\ UNCHANGED other_vars

\* fetch_keywords, lines 245-270
AltGenerate ==
  /\ call.pc = "generate"
  /\ alt' = alt_generate_step(alt, call.query)
  /\ call' = [call EXCEPT !.pc = "fetched", !.success = TRUE]
  /\ UNCHANGED other_vars

\* run(), lines 382-388: the empty Series after a failed fetch, otherwise
\* what optimize_keywords returns.  optimize_keywords returns the empty
\* Series for an empty list (lines 317-319) and on any exception (lines
\* 368-370); otherwise what CountVectorizer and the filters of lines 340-363
\* leave, which may be nothing.
AltOptimize ==
  /\ call.pc = "fetched"
  /\ \E e \in BOOLEAN :
       /\ ~call.success => e
       /\ alt.keywords = <<>> => e
       /\ call' = [call EXCEPT !.pc = "returned",
                               !.result = [from |-> IF call.success THEN "optimize" ELSE "fetch_failed",
                                           empty |-> e]]
  /\ UNCHANGED <<alt, other_vars>>

\* run() has returned to the route
AltReturn ==
  /\ call.pc = "returned"
  /\ call' = [AltIdle EXCEPT !.page = NoPage]
  /\ UNCHANGED <<alt, other_vars>>

NextAlt ==
  \/ AltRun
  \/ AltRequest
  \/ AltRetry
  \/ AltScrape
  \/ AltSiteStep
  \/ AltGenerate
  \/ AltOptimize
  \/ AltReturn

SpecAlt == InitAlt /\ [][NextAlt]_vars

(***************************************************************************)
(* Properties                                                              *)
(***************************************************************************)
\* the token sequence of a document (none for an absent or empty text)
Tokens(text) == IF text = None \/ text = <<>> THEN <<>> ELSE split(clean(text))

\* the window of n tokens at index i, as a list of tokens
Window(words, i, n) == SubSeq(words, i, i + n - 1)

\* the windows of order n of a token sequence: max(0, L-n+1) of them
WindowStarts(words, n) == {i \in 1..Len(words) : i + n - 1 <= Len(words)}

\* a window is accepted when none of its tokens is a stop word and, for a
\* unigram, its token is longer than 2
Accepted(w) ==
  /\ \A j \in 1..Len(w) : w[j] \notin stop_words
  /\ Len(w) = 1 => Len(w[1]) > 2

\* the weight table: 1/2/3 for NORMAL, 2/3/4 for IMPORTANT
TableWeight(n, is_important) == IF is_important THEN n + 1 ELSE n

\* what the windows of a token sequence add to the score of Candidate c: the
\* sum over the orders of (accepted windows equal to c) times the weight
WindowScore(words, is_important, c) ==
  LET hits(n) == Cardinality({i \in WindowStarts(words, n) :
                                /\ join(Window(words, i, n)) = c
                                /\ Accepted(Window(words, i, n))})
  IN  hits(1) * TableWeight(1, is_important)
      + hits(2) * TableWeight(2, is_important)
      + hits(3) * TableWeight(3, is_important)

\* what one document of a tier adds to the score of Candidate c
Contribution(text, is_important, c) == WindowScore(Tokens(text), is_important, c)

\* the windows of orders 1 to 3 of a token sequence, joined
WindowCandidates(words) ==
  {join(Window(words, p[1], p[2])) :
     p \in {q \in (1..Len(words)) \X (1..3) : q[1] \in WindowStarts(words, q[2])}}

\* the Candidates a document can add
DocCandidates(text) == WindowCandidates(Tokens(text))

ExtractedA == docs \ todoA

ExtractedB == docs \ todoB

\* C7: aggregation is order-independent: when the same documents have been
\* extracted into two empty tables, each in any order, the two tables map
\* every Candidate to the same score.
C7_OrderIndependent ==
  (docs # {} /\ todoA = {} /\ todoB = {}) =>
    \A c \in Keys(tabA) \cup Keys(tabB) : Get(tabA, c) = Get(tabB, c)

\* two documents with a common Candidate were extracted in different orders
\* (the insertion orders of the tables differ)
C7_Witness ==
  /\ docs # {} /\ todoA = {} /\ todoB = {}
  /\ tabA # tabB
  /\ \E c \in Keys(tabA) : \A d \in docs :
       Contribution(d.text, d.is_important, c) > 0

\* C8: extracting one document of tier t adds to every Candidate c the sum
\* over the orders n of (accepted windows of order n equal to c) times
\* weight(n, t), and changes no other entry.
C8_ExtractEffect ==
  [][ /\ \A d \in todoA \ todoA' :
          LET words == Tokens(d.text)
          IN  \A c \in Keys(tabA) \cup Keys(tabA') \cup WindowCandidates(words) :
                Get(tabA', c) = Get(tabA, c) + WindowScore(words, d.is_important, c)
      /\ \A d \in todoB \ todoB' :
          LET words == Tokens(d.text)
          IN  \A c \in Keys(tabB) \cup Keys(tabB') \cup WindowCandidates(words) :
                Get(tabB', c) = Get(tabB, c) + WindowScore(words, d.is_important, c)
    ]_vars

\* a document with repeated windows has been extracted on top of another
\* document: 'tea tea' occurs three times in 'tea tea tea tea'
C8_Witness ==
  /\ \E d \in ExtractedA : d.text = PageRepeat
  /\ \E d \in ExtractedA : d.text = PageZen
  /\ Get(tabA, <<"t","e","a"," ","t","e","a">>) >= 6
  /\ Get(tabA, <<"t","e","a">>) >= 5

\* the tokens of a Candidate
CandidateTokens(c) == split(c)

\* C9: no Candidate in the ScoreTable contains a stop word among its
\* tokens, and no unigram Candidate has length 2 or less.
C9_NoStopWordNoShortUnigram ==
  \A i \in 1..Len(keywords) :
    LET toks == CandidateTokens(keywords[i].k)
    IN  /\ \A j \in 1..Len(toks) : toks[j] \notin stop_words
        /\ Len(toks) = 1 => Len(keywords[i].k) > 2

\* a question with stop words and a related search with a two-letter word
\* have been extracted
C9_Witness ==
  /\ \E i \in 1..Len(people_also_ask) : people_also_ask[i] = PaaWhatIsTea
  /\ \E i \in 1..Len(related_terms) : related_terms[i] = RelatedAiTea
  /\ Get(keywords, <<"t","e","a">>) >= 4

\* C10 as claimed: every token of every Candidate in the ScoreTable is
\* longer than 2.
C10_EveryTokenLong ==
  \A i \in 1..Len(keywords) :
    LET toks == CandidateTokens(keywords[i].k)
    IN  \A j \in 1..Len(toks) : Len(toks[j]) > 2

\* C10 amended: every token of a unigram Candidate is longer than 2; a
\* token of a bigram or trigram Candidate has length at least 1.
C10_UnigramTokenLong ==
  \A i \in 1..Len(keywords) :
    LET toks == CandidateTokens(keywords[i].k)
    IN  \A j \in 1..Len(toks) : Len(toks[j]) > (IF Len(toks) = 1 THEN 2 ELSE 0)

\* the bigram 'ai tea' is in the table and the unigram 'ai' is not
C10_Witness ==
  /\ Get(keywords, <<"a","i"," ","t","e","a">>) > 0
  /\ Get(keywords, <<"a","i">>) = 0

RECURSIVE SumSeq(_)
SumSeq(xs) == IF xs = <<>> THEN 0 ELSE xs[1] + SumSeq(Tail(xs))

\* the IMPORTANT-tier documents of the Related-Term Synthesizer: the query
\* and the query after each of 'how to', 'what is', 'best', 'top', 'guide to'
SynthDocs(q) ==
  <<q>> \o [i \in 1..Len(prefixes) |-> prefixes[i] \o <<" ">> \o q]

SynthScore(q, c) ==
  SumSeq([i \in 1..Len(SynthDocs(q)) |-> Contribution(SynthDocs(q)[i], TRUE, c)])

SynthCandidates(q) ==
  {c \in UNION {DocCandidates(SynthDocs(q)[i]) : i \in 1..Len(SynthDocs(q))} :
     SynthScore(q, c) > 0}

\* the search request supplied no document
NoDocuments(o) ==
  o.raises \/ o.status # 200 \/ (o.paa = <<>> /\ o.related = <<>> /\ o.urls = <<>>)

\* the documents that the fetch of outcome o hands to the extraction, with
\* their tiers: questions and related searches IMPORTANT, page bodies NORMAL
FetchedDocs(o) ==
  IF o.raises \/ o.status # 200 THEN <<>>
  ELSE LET paa == [i \in 1..Len(o.paa) |-> [text |-> strip(o.paa[i]), is_important |-> TRUE]]
           rel == [i \in 1..Len(o.related) |->
                     [text |-> IF startswith(strip(o.related[i]), <<"R","e","l","a","t","e","d">>)
                               THEN <<>> ELSE strip(o.related[i]),
                      is_important |-> TRUE]]
           pages == [i \in 1..Len(o.urls) |->
                       [text |-> IF o.urls[i].raises THEN None ELSE o.urls[i].text,
                        is_important |-> FALSE]]
       IN  paa \o rel \o pages

DocScore(o, c) ==
  SumSeq([i \in 1..Len(FetchedDocs(o)) |->
            Contribution(FetchedDocs(o)[i].text, FetchedDocs(o)[i].is_important, c)])

FetchedCandidates(o) ==
  UNION {DocCandidates(FetchedDocs(o)[i].text) : i \in 1..Len(FetchedDocs(o))}

\* run(query) on a newly constructed agent, the search request having
\* outcome o: the agent at the call of optimize_keywords
RECURSIVE StepAll(_, _, _, _)
StepAll(a, kind, list, i) ==
  IF i > Len(list) THEN a
  ELSE StepAll(IF kind = "paa" THEN paa_step(a, list[i])
               ELSE IF kind = "related" THEN related_step(a, list[i])
               ELSE site_step(a, list[i]),
               kind, list, i + 1)

FreshRun(q, o) ==
  LET a1 == reset(generate_related_terms(NewAgent, q))
  IN  IF o.raises \/ o.status # 200 THEN a1
      ELSE StepAll(StepAll(StepAll(a1, "paa", o.paa, 1), "related", o.related, 1),
                   "sites", head(o.urls, max_sites), 1)

\* C1: when the fetch supplies no documents, run(query) returns a non-empty
\* ranked list whose Candidates all derive from the Related-Term
\* Synthesizer's output for the query.
C1_FallbackNonEmpty ==
  \A t \in workers :
    (pc[t] = "done" /\ NoDocuments(outcome[t])) =>
      /\ result[t] # <<>>
      /\ \A i \in 1..Len(result[t]) : result[t][i].k \in SynthCandidates(query[t])

\* C2: with two requests running run() at the same time, the result of each
\* run has no score above what its own query and documents contribute,
\* and holds every Candidate of its own documents that passes the filter
\* and the cut at 100 with at least the score the documents contribute.
C2_OwnScoreTable ==
  \A t \in workers :
    pc[t] = "done" =>
      /\ \A i \in 1..Len(result[t]) :
           result[t][i].v <= SynthScore(query[t], result[t][i].k)
                             + DocScore(outcome[t], result[t][i].k)
      /\ \A c \in FetchedCandidates(outcome[t]) :
           (keep_keyword(c) /\ DocScore(outcome[t], c) > 0) =>
             \/ Get(result[t], c) >= DocScore(outcome[t], c)
             \/ c \notin Keys(result[t]) /\ Len(result[t]) = 100

\* C3: the result of every run equals the result a newly constructed agent
\* returns for the same query and documents.
C3_RunEqualsFreshRun ==
  \A t \in workers :
    pc[t] = "done" =>
      \E tie \in TieOrders :
        result[t] = optimize_keywords(FreshRun(query[t], outcome[t]).keywords, tie)

\* a run has returned keywords on an agent whose previous run had returned
\* keywords as well
C3_Witness ==
  \E t \in workers :
    /\ pc[t] = "done"
    /\ requests >= 2
    /\ response[t] = "keywords"
    /\ result[t] # <<>>

\* C4: when the Keyword Ranker reads the ScoreTable, the contributions of
\* the synthesizer's IMPORTANT-tier documents (the query and the five
\* prefixed queries) are in it.
C4_SynthScoredAtRanking ==
  \A t \in workers :
    pc[t] = "optimize" =>
      \A c \in SynthCandidates(query[t]) : Get(keywords, c) >= SynthScore(query[t], c)

\* C5: in the ranked output two entries of equal score are in ascending
\* lexicographic order of their Candidates.
C5_TiesLexicographic ==
  \A t \in workers :
    pc[t] = "done" =>
      \A i, j \in 1..Len(result[t]) :
        (i < j /\ result[t][i].v = result[t][j].v) =>
          StrLess(result[t][i].k, result[t][j].k)

\* C6: the ranked output is in non-increasing score order, has at most 100
\* entries, holds no Candidate twice, and no Candidate that passed the
\* filter and was cut off scores more than a Candidate that was kept.
C6_RankedTopSelection ==
  \A t \in workers :
    pc[t] = "done" =>
      LET r == result[t]
          kept == {r[i].k : i \in 1..Len(r)}
          passed == filter_series(keywords)
      IN  /\ \A i \in 1..Len(r) : \A j \in 1..Len(r) : i < j => r[i].v >= r[j].v
          /\ Len(r) <= 100
          /\ \A i \in 1..Len(r) : \A j \in 1..Len(r) : i # j => r[i].k # r[j].k
          /\ \A i \in 1..Len(r) : r[i].v = Get(keywords, r[i].k) /\ r[i].v > 0
          /\ \A i \in 1..Len(passed) :
               passed[i].k \notin kept => \A j \in 1..Len(r) : passed[i].v <= r[j].v

\* more than 100 Candidates passed the filter and 100 were returned
C6_Witness ==
  \E t \in workers :
    /\ pc[t] = "done"
    /\ Len(filter_series(keywords)) > 100
    /\ Len(result[t]) = 100

\* a step of generate_related_terms or of one of the three loops of
\* fetch_keywords: the steps that call _extract_keywords_from_text
ExtractionStep ==
  \E t \in workers :
    /\ pc[t] \in {"generate", "paa", "related", "sites"}
    /\ <<pc'[t], idx'[t]>> # <<pc[t], idx[t]>>

\* C11: every Candidate in the ScoreTable has a strictly positive integer
\* score, whatever resets, syntheses and extractions came before, and no
\* extraction decreases a score that is in the table.
C11_PositiveNeverDecreased ==
  /\ [](\A i \in 1..Len(keywords) : keywords[i].v \in Nat /\ keywords[i].v > 0)
  /\ [][ExtractionStep =>
          \A i \in 1..Len(keywords) : Get(keywords', keywords[i].k) >= keywords[i].v]_vars

\* after a reset and the extraction of a question, a related search and two
\* pages, 'tea' has been raised three times
C11_Witness ==
  \E t \in workers :
    /\ pc[t] = "optimize"
    /\ requests = 2
    /\ Get(keywords, <<"t","e","a">>) = 5
    /\ Get(keywords, <<"z","e","n">>) = 1

\* lowercase alphanumeric tokens separated by single spaces
OnlySingleSpacedTokens(s) ==
  /\ \A i \in 1..Len(s) : s[i] \in Lowercase \cup Digits \cup {" "}
  /\ \A i \in 1..Len(s) : s[i] = " " => i > 1 /\ i < Len(s) /\ s[i + 1] # " "

\* C12: the normalised text consists only of lowercase alphanumeric tokens
\* separated by single spaces (no other character, such as an underscore,
\* survives), and normalising it again returns it unchanged.
C12_OnlyTokensIdempotent ==
  /\ cleaned # None => OnlySingleSpacedTokens(cleaned)
  /\ recleaned # None => recleaned = cleaned

\* the second half of C12 alone: cleaning a cleaned text returns it
C12_Idempotent == recleaned # None => recleaned = cleaned

\* a pattern substituted by one space: the first character of a match
\* becomes the space and the rest of the match is dropped
SubSpaced(s, ends) ==
  LET keep == [i \in 1..Len(s) |-> \A m \in 1..(i - 1) : ends[m] < i]
      one == [i \in 1..Len(s) |-> IF ends[i] > 0 THEN " " ELSE s[i]]
  IN  Pick(one, keep, 1, Len(s))

\* the cleaning with each URL and each tag replaced by one space
clean_spaced(text) ==
  LET l == lower(text)
      u == SubSpaced(l, [m \in 1..Len(l) |-> UrlMatchEnd(l, m)])
      g == SubSpaced(u, [m \in 1..Len(u) |-> TagMatchEnd(u, m)])
  IN  strip(SubSpace(SubNonWord(g)))

\* C13: each URL-like and each tag-like substring is replaced by a single
\* space, so the text on either side of a removed URL or tag is in separate
\* tokens ('foo<br>bar' gives 'foo' and 'bar', never 'foobar').
C13_RemovedSplitsTokens ==
  cleaned # None => split(cleaned) = split(clean_spaced(given))

\* the URL half of C13 alone: a URL match runs to the next white space, so
\* dropping it joins no two tokens
C13_UrlSplitsTokens ==
  cleaned # None =>
    LET l == lower(given)
    IN  split(SubUrl(l)) = split(SubSpaced(l, [m \in 1..Len(l) |-> UrlMatchEnd(l, m)]))

\* the fetched documents of outcome o with their token sequences
TokenizedDocs(o) ==
  {[i |-> i, is_important |-> FetchedDocs(o)[i].is_important,
    words |-> Tokens(FetchedDocs(o)[i].text)] : i \in 1..Len(FetchedDocs(o))}

\* what tokenized documents add to the score of Candidate c
TokenizedScore(tds, c) ==
  SumSeq([i \in 1..Cardinality(tds) |->
            LET d == CHOOSE x \in tds : x.i = i
            IN  WindowScore(d.words, d.is_important, c)])

\* C14: run(query) absorbs an exception or a status other than 200 of the
\* search request and an exception of any single page: it gets to its
\* return with a ranked list, empty or not, of the table, and the table
\* holds exactly the scores of the documents that were fetched, those
\* before and those after a failing page included.
C14_FaultsAbsorbed ==
  \A t \in workers :
    pc[t] = "done" =>
      LET o == outcome[t]
          tds == TokenizedDocs(o)
      IN  /\ success[t] = (~o.raises /\ o.status = 200)
          /\ \A c \in Keys(keywords) \cup UNION {WindowCandidates(d.words) : d \in tds} :
                Get(keywords, c) = TokenizedScore(tds, c)
          /\ \E tie \in TieOrders : result[t] = optimize_keywords(keywords, tie)
          /\ (o.raises \/ o.status # 200) => result[t] = <<>>

\* a run whose second page raised: the page before it and the page after it
\* are both in the result
C14_Witness ==
  \E t \in workers :
    /\ pc[t] = "done"
    /\ \E i \in 1..Len(outcome[t].urls) : outcome[t].urls[i].raises
    /\ Get(result[t], <<"b","u","y">>) = 1
    /\ Get(result[t], <<"z","e","n"," ","t","e","a">>) = 2

\* a run whose search request raised returns the empty list
C14_WitnessRequestRaised ==
  \E t \in workers : pc[t] = "done" /\ outcome[t].raises /\ result[t] = <<>>

\* C15: whatever the ScoreTable holds, the ranked output has no Candidate
\* made of digits only and no Candidate of 2 characters or less.
C15_NoDigitsNoShort ==
  ranked.returned =>
    \A i \in 1..Len(ranked.series) :
      ~isdigit(ranked.series[i].k) /\ Len(ranked.series[i].k) > 2

\* a Counter with the all-digit key '123' and a longer key has been ranked
C15_Witness ==
  /\ ranked.returned
  /\ Get(table, <<"1","2","3">>) > 0
  /\ Len(table) = 2
  /\ Len(ranked.series) = 1

\* C16: a query that is empty after trimming never reaches run(): in both
\* routes a request either starts run() with a query that is not empty
\* after trimming, or is rejected with the answer of its route and leaves
\* the agent's fields and every run in progress as they are.
C16_EmptyQueryRejected ==
  /\ [](\A t \in workers : pc[t] # "idle" => strip(query[t]) # <<>>)
  /\ [][requests' # requests =>
          \/ \E t \in workers :
               /\ pc[t] = "idle"
               /\ pc'[t] = "generate"
               /\ strip(query'[t]) # <<>>
               /\ UNCHANGED agent_vars
          \/ /\ pc' = pc
             /\ UNCHANGED agent_vars
             /\ \E t \in workers, route \in Routes :
                  /\ query'[t] = <<>>
                  /\ response'[t] = reject_response(route)]_vars

\* an empty query was rejected after a run: the table that run left is
\* still there
C16_Witness ==
  \E t \in workers :
    /\ pc[t] = "idle"
    /\ requests = 2
    /\ response[t] = "400"
    /\ keywords # <<>>

\* the same for the form route
C16_WitnessForm ==
  \E t \in workers :
    /\ pc[t] = "idle"
    /\ requests = 2
    /\ response[t] = "flash_warning"
    /\ keywords # <<>>

\* the number of windows of the documents of one tier that are Candidate c
Occurrences(tds, c, is_important) ==
  LET n == Len(split(c))
      hits(d) == IF d.is_important # is_important THEN 0
                 ELSE Cardinality({j \in WindowStarts(d.words, n) :
                                     join(Window(d.words, j, n)) = c})
  IN  SumSeq([i \in 1..Cardinality(tds) |-> hits(CHOOSE d \in tds : d.i = i)])

\* C17: for the query 'coffee beans' with the documents 'best coffee beans
\* online' (IMPORTANT) and 'buy coffee beans' (NORMAL) the output holds
\* 'coffee', 'beans' and 'coffee beans', and 'coffee beans' scores more
\* than each of the two; in general a bigram Candidate that occurs as often
\* in each tier as a unigram Candidate has a strictly higher score.
C17_BigramAboveUnigram ==
  \A t \in workers :
    pc[t] = "done" =>
      LET r == result[t]
          o == outcome[t]
          coffee == <<"c","o","f","f","e","e">>
          beans == <<"b","e","a","n","s">>
          tds == TokenizedDocs(o)
          profile == {[order |-> Len(split(c)), score |-> Get(keywords, c),
                       important |-> Occurrences(tds, c, TRUE),
                       normal |-> Occurrences(tds, c, FALSE)] : c \in Keys(keywords)}
      IN  /\ (query[t] = QueryCoffeeBeans /\ o = BestOnlineOutcome) =>
                /\ Get(r, coffee) > 0
                /\ Get(r, beans) > 0
                /\ Get(r, QueryCoffeeBeans) > Get(r, coffee)
                /\ Get(r, QueryCoffeeBeans) > Get(r, beans)
          /\ \A u, b \in profile :
                ( /\ u.order = 1
                  /\ b.order = 2
                  /\ u.important = b.important
                  /\ u.normal = b.normal )
                => b.score > u.score

\* the run of the example has returned: 'coffee' 3, 'coffee beans' 5
C17_Witness ==
  \E t \in workers :
    /\ pc[t] = "done"
    /\ query[t] = QueryCoffeeBeans
    /\ outcome[t] = BestOnlineOutcome
    /\ Get(result[t], <<"c","o","f","f","e","e">>) = 3
    /\ Get(result[t], <<"b","e","a","n","s">>) = 3
    /\ Get(result[t], QueryCoffeeBeans) = 5

\* a text that gives no token: absent, empty, or white space and punctuation
\* only
NoTokens(text) ==
  text = None \/ text = <<>> \/ \A i \in 1..Len(text) : ~IsWord(text[i])

C18_WitnessAbsent ==
  /\ \E d \in ExtractedA : d.text = PageZen
  /\ \E d \in ExtractedA : d.text = None
  /\ \E d \in todoB : d.text = None
  /\ Get(tabA, <<"z","e","n">>) > 0
  /\ tabA = tabB

\* the search requests of the call that were answered with a status other
\* than 200
NotOk(r) == ~r.raises /\ r.status # 200

\* C19: fetch_keywords of the alternate agent sends at most two search
\* requests per call; it returns False exactly when the first request and
\* its one retry were both answered with a status other than 200, and in
\* every other outcome, an exception included, True with a keyword list
\* that is not empty and holds the query; run() returns the empty result
\* only after such a failed fetch or when optimize_keywords yields nothing.
C19_AltFetchOutcome ==
  /\ Len(call.responses) <= 2
  /\ call.pc \in {"fetched", "returned"} =>
       /\ ~call.success <=>
            (Len(call.responses) = 2 /\ NotOk(call.responses[1]) /\ NotOk(call.responses[2]))
       /\ call.success =>
            /\ alt.keywords # <<>>
            /\ \E i \in 1..Len(alt.keywords) : alt.keywords[i] = call.query
  /\ call.pc = "returned" =>
       /\ call.result.from = "fetch_failed" <=> ~call.success
       /\ call.result.empty => (~call.success \/ call.result.from = "optimize")
       /\ ~call.success => call.result.empty

\* fetch_keywords returned True after a first answer 503 and a retry
\* answered 200 with a page that gave search results and a website
C19_Witness ==
  /\ call.pc = "fetched"
  /\ call.success
  /\ Len(call.responses) = 2
  /\ NotOk(call.responses[1])
  /\ Len(alt.top_websites) = 1
  /\ Len(alt.search_titles) = 1

\* run() returned the empty result after two answers other than 200
C19_WitnessFailed ==
  /\ call.pc = "returned"
  /\ ~call.success
  /\ call.result.empty
  /\ Len(call.responses) = 2

\* fetch_keywords returned True from the except handler
C19_WitnessExcept ==
  /\ call.pc = "fetched"
  /\ call.success
  /\ \E i \in 1..Len(call.responses) : call.responses[i].raises
  /\ alt.keywords = alt_fallback(call.query)
====
